---- MODULE Spec2Model ----
(***************************************************************************)
(* Model of sjrhee/protect_reveal: a sequential protect -> reveal harness.  *)
(*                                                                         *)
(* Python values are modelled as follows.                                  *)
(*   str            a sequence of one-character strings, <<"0","0","1">>   *)
(*   list           a sequence                                             *)
(*   JSON value     a tagged record: JNull, JStr(s), JInt(n), JList(xs),   *)
(*                  JDict(pairs) with pairs a sequence of [k, v] records   *)
(*                  in insertion order (keys are TLA+ strings)             *)
(*   Optional[x]    JNull or the tagged value                              *)
(***************************************************************************)
EXTENDS Integers, Sequences, FiniteSets, TLC

\* ------------------------------------------------------------------ bounds
MaxIter == 2
MaxInputs == 3
MaxBatch == 2
MaxLen == 3

\* --------------------------------------------------------------- characters
Digits == <<"0", "1", "2", "3", "4", "5", "6", "7", "8", "9">>

DigitChars == {Digits[i] : i \in 1..10}

\* characters the inputs are drawn from: the decimal digits and two others
Alphabet == DigitChars \cup {"a", "-"}

DigitVal(c) == (CHOOSE i \in 1..10 : Digits[i] = c) - 1

\* str.isdigit(): non-empty and every character is a digit
isdigit(s) == Len(s) > 0 /\ \A i \in 1..Len(s) : s[i] \in DigitChars

\* int(s) for an all-digit string
RECURSIVE int(_)
int(s) == IF Len(s) = 0 THEN 0
          ELSE 10 * int(SubSeq(s, 1, Len(s) - 1)) + DigitVal(s[Len(s)])

\* str(n) for n >= 0: the decimal digits without padding
RECURSIVE str_int(_)
str_int(n) == IF n < 10 THEN <<Digits[n + 1]>>
              ELSE str_int(n \div 10) \o <<Digits[(n % 10) + 1]>>

RECURSIVE zeros(_)
zeros(k) == IF k <= 0 THEN <<>> ELSE <<"0">> \o zeros(k - 1)

\* f"{n:0{width}d}": pad with zeros on the left up to width, never truncate
format_0d(n, width) == zeros(width - Len(str_int(n))) \o str_int(n)

\* the value an increment_numeric_string call produces
ValueError == [raised |-> "ValueError"]

Returned(s) == [raised |-> "no", value |-> s]

\* a plausible slip: the sum is cut to the original width
increment_truncating(s) ==
    IF ~isdigit(s) THEN ValueError
    ELSE LET d == str_int(int(s) + 1)
         IN  Returned(IF Len(d) > Len(s) THEN SubSeq(d, Len(d) - Len(s) + 1, Len(d))
                      ELSE format_0d(int(s) + 1, Len(s)))

\* a plausible slip: the digit check is dropped for the empty string
increment_unchecked(s) ==
    IF Len(s) > 0 /\ ~isdigit(s) THEN ValueError
    ELSE Returned(format_0d(int(s) + 1, Len(s)))

increment_numeric_string(s) ==
    IF ~isdigit(s) THEN ValueError
    ELSE LET width == Len(s)
             n == int(s) + 1
         IN  Returned(format_0d(n, width))

\* -------------------------------------------------------------- JSON values
JNull == [t |-> "null"]

JStr(s) == [t |-> "str", v |-> s]

JInt(n) == [t |-> "int", v |-> n]

JList(xs) == [t |-> "list", v |-> xs]

JDict(pairs) == [t |-> "dict", v |-> pairs]

KV(key, val) == [k |-> key, v |-> val]

\* key in d
Has(d, key) == \E j \in 1..Len(d.v) : d.v[j].k = key

\* d.get(key): None when the key is absent
Get(d, key) ==
    IF Has(d, key) THEN d.v[CHOOSE j \in 1..Len(d.v) : d.v[j].k = key].v ELSE JNull

\* bool(x)
Truthy(x) ==
    CASE x.t = "null" -> FALSE
      [] x.t = "int" -> x.v # 0
      [] OTHER -> Len(x.v) > 0

\* a or b
Or(a, b) == IF Truthy(a) THEN a ELSE b

\* str(x) of a JSON scalar; containers are given a fixed repr
py_str(x) ==
    CASE x.t = "str" -> x.v
      [] x.t = "int" -> str_int(x.v)
      [] x.t = "null" -> <<"N", "o", "n", "e">>
      [] x.t = "list" -> <<"[", "]">>
      [] OTHER -> <<"{", "}">>

\* [str(x) for x in xs]
StrEach(xs) == [j \in 1..Len(xs) |-> py_str(xs[j])]

\* [str(item.get(key)) for item in xs if isinstance(item, dict) and key in item]
RECURSIVE FieldOfEach(_, _)
FieldOfEach(xs, key) ==
    IF Len(xs) = 0 THEN <<>>
    ELSE LET item == Head(xs)
             rest == FieldOfEach(Tail(xs), key)
         IN  IF item.t = "dict" /\ Has(item, key)
             THEN <<py_str(Get(item, key))>> \o rest
             ELSE rest

\* ------------------------------------------------------------ client.py
APIResponse(status, body) == [status_code |-> status, body |-> body]

\* a plausible slip: any response that has a status code counts as a success
is_success_any_status(r) == r.status_code.t = "int" /\ r.status_code.v # 0

\* a plausible slip: the status is compared with the range 200..299
is_success_http_range(r) == r.status_code.t = "int" /\ r.status_code.v \in 200..299

is_success(r) ==
    /\ r.status_code.t = "int"
    /\ r.status_code.v # 0
    /\ str_int(r.status_code.v)[1] = "2"

\* what session.post can do: an HTTP response (JSON body or plain text), or a
\* RequestException that carries no response
HttpJson(status, body) ==
    [kind |-> "response", status_code |-> status, json |-> <<body>>, text |-> <<>>]

HttpText(status, text) ==
    [kind |-> "response", status_code |-> status, json |-> <<>>, text |-> text]

RequestException(text) == [kind |-> "RequestException", str |-> text, response |-> <<>>]

\* a RequestException that has the HTTP response attached
RequestExceptionWith(text, resp) ==
    [kind |-> "RequestException", str |-> text, response |-> <<resp>>]

\* a plausible slip: an error status is treated like a failed request
post_json_raise_for_status(o) ==
    IF o.kind = "RequestException" \/ o.status_code >= 400
    THEN APIResponse(JNull, JStr(IF o.kind = "RequestException" THEN o.str ELSE o.text))
    ELSE APIResponse(JInt(o.status_code),
                     IF o.json # <<>> THEN o.json[1] ELSE JStr(o.text))

post_json(o) ==
    IF o.kind = "RequestException" /\ o.response = <<>>
    THEN APIResponse(JNull, JStr(o.str))
    ELSE LET resp == IF o.kind = "RequestException" THEN o.response[1] ELSE o
         IN  APIResponse(JInt(resp.status_code),
                         IF resp.json # <<>> THEN resp.json[1] ELSE JStr(resp.text))

Policy == "P03"

protect_payload(data) == [protection_policy_name |-> Policy, data |-> data]

\* a plausible slip: the extracted value is sent as it is, None included
reveal_payload_no_default(token) ==
    [protection_policy_name |-> Policy, protected_data |-> token]

reveal_payload(token) ==
    [protection_policy_name |-> Policy, protected_data |-> Or(token, JStr(<<>>))]

protect_bulk_payload(items) ==
    [protection_policy_name |-> Policy, data |-> items, data_array |-> items]

\* protected_items is a list of str here: every element comes from str(x)
reveal_bulk_payload(protected_items) ==
    LET pda == [j \in 1..Len(protected_items) |-> [protected_data |-> protected_items[j]]]
        simple_list == [j \in 1..Len(pda) |-> pda[j].protected_data]
    IN  [protection_policy_name |-> Policy,
         protected_data |-> simple_list,
         protected_array |-> simple_list,
         protected_data_array |-> pda]

IsListAt(body, key) == Has(body, key) /\ Get(body, key).t = "list"

\* a plausible slip: the results shape is tried before protected_data_array
extract_protected_list_results_first(response) ==
    LET body == response.body
    IN  CASE body.t = "null" -> <<>>
          [] body.t = "list" -> StrEach(body.v)
          [] body.t = "dict" ->
                IF IsListAt(body, "protected_data")
                THEN StrEach(Get(body, "protected_data").v)
                ELSE IF IsListAt(body, "results")
                THEN FieldOfEach(Get(body, "results").v, "protected_data")
                ELSE IF IsListAt(body, "protected_data_array")
                THEN FieldOfEach(Get(body, "protected_data_array").v, "protected_data")
                ELSE <<>>
          [] OTHER -> <<>>

extract_protected_list_from_protect_response(response) ==
    LET body == response.body
    IN  CASE body.t = "null" -> <<>>
          [] body.t = "list" -> StrEach(body.v)
          [] body.t = "dict" ->
                IF IsListAt(body, "protected_data")
                THEN StrEach(Get(body, "protected_data").v)
                ELSE IF IsListAt(body, "protected_data_array")
                THEN FieldOfEach(Get(body, "protected_data_array").v, "protected_data")
                ELSE IF IsListAt(body, "results")
                THEN FieldOfEach(Get(body, "results").v, "protected_data")
                ELSE <<>>
          [] OTHER -> <<>>

\* for item in results: the first of data, restored, value that the item has
RECURSIVE ResultsFields(_)
ResultsFields(xs) ==
    IF Len(xs) = 0 THEN <<>>
    ELSE LET item == Head(xs)
             rest == ResultsFields(Tail(xs))
         IN  IF item.t # "dict" THEN rest
             ELSE IF Has(item, "data") THEN <<py_str(Get(item, "data"))>> \o rest
             ELSE IF Has(item, "restored") THEN <<py_str(Get(item, "restored"))>> \o rest
             ELSE IF Has(item, "value") THEN <<py_str(Get(item, "value"))>> \o rest
             ELSE rest

\* [str(v) for v in body.values() if isinstance(v, (str, int))]
RECURSIVE ScalarValues(_)
ScalarValues(pairs) ==
    IF Len(pairs) = 0 THEN <<>>
    ELSE LET val == Head(pairs).v
             rest == ScalarValues(Tail(pairs))
         IN  IF val.t \in {"str", "int"} THEN <<py_str(val)>> \o rest ELSE rest

\* a plausible slip: the scalar fallback is tried before data_array
extract_restored_list_scalars_first(response) ==
    LET body == response.body
    IN  CASE body.t = "null" -> <<>>
          [] body.t = "list" -> StrEach(body.v)
          [] body.t = "dict" ->
                IF IsListAt(body, "data") THEN StrEach(Get(body, "data").v)
                ELSE IF IsListAt(body, "restored") THEN StrEach(Get(body, "restored").v)
                ELSE IF IsListAt(body, "items") THEN StrEach(Get(body, "items").v)
                ELSE IF IsListAt(body, "results") THEN ResultsFields(Get(body, "results").v)
                ELSE IF ScalarValues(body.v) # <<>> THEN ScalarValues(body.v)
                ELSE IF IsListAt(body, "data_array")
                THEN FieldOfEach(Get(body, "data_array").v, "data")
                ELSE <<>>
          [] OTHER -> <<>>

extract_restored_list_from_reveal_response(response) ==
    LET body == response.body
    IN  CASE body.t = "null" -> <<>>
          [] body.t = "list" -> StrEach(body.v)
          [] body.t = "dict" ->
                IF IsListAt(body, "data") THEN StrEach(Get(body, "data").v)
                ELSE IF IsListAt(body, "restored") THEN StrEach(Get(body, "restored").v)
                ELSE IF IsListAt(body, "items") THEN StrEach(Get(body, "items").v)
                ELSE IF IsListAt(body, "results") THEN ResultsFields(Get(body, "results").v)
                ELSE IF IsListAt(body, "data_array")
                THEN FieldOfEach(Get(body, "data_array").v, "data")
                ELSE ScalarValues(body.v)
          [] OTHER -> <<>>

\* the copy of the function in the script protect_reveal.py: results is among
\* the keyed lists, so its elements are stringified like any other list's
script_extract_restored_list_from_reveal_response(response) ==
    LET body == response.body
    IN  CASE body.t = "null" -> <<>>
          [] body.t = "list" -> StrEach(body.v)
          [] body.t = "dict" ->
                IF IsListAt(body, "data") THEN StrEach(Get(body, "data").v)
                ELSE IF IsListAt(body, "restored") THEN StrEach(Get(body, "restored").v)
                ELSE IF IsListAt(body, "results") THEN StrEach(Get(body, "results").v)
                ELSE IF IsListAt(body, "items") THEN StrEach(Get(body, "items").v)
                ELSE IF IsListAt(body, "data_array")
                THEN FieldOfEach(Get(body, "data_array").v, "data")
                ELSE ScalarValues(body.v)
          [] OTHER -> <<>>

extract_protected_from_protect_response(response) ==
    LET body == response.body
    IN  IF body.t # "dict" THEN JNull
        ELSE Or(Or(Get(body, "protected_data"), Get(body, "protected")), Get(body, "token"))

RestoredKeys ==
    <<"data", "original", "plain", "revealed", "unprotected_data", "unprotected", "decrypted">>

\* a plausible slip: the first truthy value, as the protect extraction does
extract_restored_first_truthy(response) ==
    LET body == response.body
    IN  IF body.t # "dict" THEN JNull
        ELSE Or(Or(Or(Or(Or(Or(Get(body, "data"), Get(body, "original")),
                            Get(body, "plain")), Get(body, "revealed")),
                      Get(body, "unprotected_data")), Get(body, "unprotected")),
                Get(body, "decrypted"))

extract_restored_from_reveal_response(response) ==
    LET body == response.body
        present == {j \in 1..Len(RestoredKeys) : Has(body, RestoredKeys[j])}
    IN  IF body.t # "dict" THEN JNull
        ELSE IF present = {} THEN JNull
        ELSE Get(body, RestoredKeys[CHOOSE j \in present : \A m \in present : j <= m])

\* ------------------------------------------------------------ runner.py
IterationResult(data, p_resp, r_resp, token, restored) ==
    [data |-> data, protect_response |-> p_resp, reveal_response |-> r_resp,
     protected_token |-> token, restored |-> restored]

\* a plausible slip: any restored value counts as a match
match_any_restored(r) == r.restored.t # "null"

match(r) == IF r.restored.t # "null" THEN r.restored = JStr(r.data) ELSE FALSE

success(r) == is_success(r.protect_response) /\ is_success(r.reveal_response)

BulkIterationResult(batch, p_resp, r_resp, tokens, restored) ==
    [inputs |-> batch, protect_response |-> p_resp, reveal_response |-> r_resp,
     protected_tokens |-> tokens, restored_values |-> restored]

Min(a, b) == IF a <= b THEN a ELSE b

\* a plausible slip: one flag per restored value, true when the value is one
\* of the inputs
matches_per_restored(b) ==
    [j \in 1..Len(b.restored_values) |->
        \E m \in 1..Len(b.inputs) : b.inputs[m] = b.restored_values[j]]

\* [r == i for i, r in zip(inputs, restored_values)]
matches(b) ==
    [j \in 1..Min(Len(b.inputs), Len(b.restored_values)) |-> b.restored_values[j] = b.inputs[j]]

\* an APIError as a stricter client raises it: a status code or None, and
\* the HTTP response (<<response>>) or None (<<>>)
APIError(status, response) == [status_code |-> status, response |-> response]

\* a plausible slip: the status code of the error itself is forgotten
response_of_error_no_status(err) ==
    IF err.response = <<>> THEN APIResponse(JNull, JNull)
    ELSE LET resp == err.response[1]
         IN  APIResponse(JInt(resp.status_code),
                         IF resp.json # <<>> THEN resp.json[1] ELSE JStr(resp.text))

\* the except APIError blocks of run_bulk_iteration
response_of_error(err) ==
    IF err.response = <<>> THEN APIResponse(err.status_code, JNull)
    ELSE LET resp == err.response[1]
         IN  APIResponse(JInt(resp.status_code),
                         IF resp.json # <<>> THEN resp.json[1] ELSE JStr(resp.text))

\* a plausible slip: the slice keeps one item too many
batch_of_overlapping(xs, k, size) == SubSeq(xs, k + 1, Min(k + size + 1, Len(xs)))

\* inputs[i : i + batch_size]
batch_of(xs, k, size) == SubSeq(xs, k + 1, Min(k + size, Len(xs)))

\* -------------------------------------------------------------- the server
Tok(x) == <<"t">> \o x

ErrText == <<"e", "r", "r">>

ServerError == JDict(<<KV("error", JStr(ErrText))>>)

TokenItems(batch) ==
    [j \in 1..Len(batch) |-> JDict(<<KV("protected_data", JStr(Tok(batch[j])))>>)]

DataItems(tokens) ==
    [j \in 1..Len(tokens) |-> JDict(<<KV("data", JStr(Tail(tokens[j])))>>)]

ButLast(xs) == SubSeq(xs, 1, Len(xs) - 1)

\* what the protect endpoint may answer to data
ProtectOutcomes(data) ==
    { HttpJson(200, JDict(<<KV("protected_data", JStr(Tok(data)))>>)),
      HttpJson(200, JDict(<<KV("protected_data", JStr(<<>>))>>)),
      HttpJson(500, ServerError),
      HttpText(404, ErrText),
      RequestException(ErrText) }

\* what the reveal endpoint may answer to a token (a JSON string): an error, no
\* response, the original value, or a wrong value (the token itself)
RevealOutcomes(token) ==
    { HttpJson(400, ServerError), RequestException(ErrText) }
    \cup (IF token.t = "str" /\ Len(token.v) > 0
          THEN {HttpJson(200, JDict(<<KV("data", JStr(Tail(token.v)))>>)),
                HttpJson(200, JDict(<<KV("data", token)>>))}
          ELSE {})

\* what the protectbulk endpoint may answer to a batch: every token, all but
\* the last token, an error body, no response at all
BulkProtectOutcomes(batch) ==
    { HttpJson(200, JDict(<<KV("protected_data_array", JList(TokenItems(batch)))>>)),
      HttpJson(201, JDict(<<KV("protected_data_array", JList(ButLast(TokenItems(batch))))>>)),
      HttpJson(500, ServerError),
      RequestException(ErrText) }

\* an error body with two scalar fields
ServerErrorWithCode == JDict(<<KV("error", JStr(ErrText)), KV("code", JInt(500))>>)

BulkRevealOutcomes(tokens) ==
    { HttpJson(200, JDict(<<KV("data_array", JList(DataItems(tokens)))>>)),
      HttpJson(500, ServerError),
      HttpJson(500, ServerErrorWithCode),
      RequestException(ErrText) }

\* the errors a stricter client raises instead of returning a response
APIErrors ==
    { APIError(JNull, <<>>),
      APIError(JInt(502), <<>>),
      APIError(JInt(502), <<HttpJson(503, ServerError)>>) }

\* ------------------------------------------------------------------ cli.py
\* pbody = body or {}; pbody.get(...) raises AttributeError unless pbody is a dict
get_raises(body) == Truthy(body) /\ body.t # "dict"

\* the --show-bodies block raises when either body is a non-empty non-dict
show_bodies_raises(p_resp, r_resp) == get_raises(p_resp.body) \/ get_raises(r_resp.body)

\* the input list of bulk mode: append cur, increment, stop at the first error
RECURSIVE build_inputs(_, _)
build_inputs(cur, n) ==
    IF n <= 0 THEN <<>>
    ELSE LET out == increment_numeric_string(cur)
         IN  IF out.raised # "no" THEN <<cur>>
             ELSE <<cur>> \o build_inputs(out.value, n - 1)

\* sum(ns)
RECURSIVE SumSeq(_)
SumSeq(ns) == IF Len(ns) = 0 THEN 0 ELSE Head(ns) + SumSeq(Tail(ns))

\* sum(1 for m in bs if m)
CountTrue(bs) == SumSeq([j \in 1..Len(bs) |-> IF bs[j] THEN 1 ELSE 0])

\* the successful_items term of one batch
successful_items_of(b) ==
    IF is_success(b.protect_response) /\ is_success(b.reveal_response)
       /\ Len(b.restored_values) = Len(b.inputs)
    THEN Len(b.inputs)
    ELSE Len(b.restored_values)

NoSummary == [printed |-> FALSE, attempted |-> 0, successful |-> 0, matched |-> 0]

Summary(attempted, successful, matched) ==
    [printed |-> TRUE, attempted |-> attempted, successful |-> successful, matched |-> matched]

\* ------------------------------------------------------------------- state
VARIABLES
    entry,            \* "cli": cli.main; "script": main of the script
                      \* protect_reveal.py; "runner": run_bulk_iteration called directly;
                      \* "utils": increment_numeric_string called directly;
                      \* "client": a function of client.py called directly
    config,           \* the Config of the run
    pc,               \* where the single thread of control stands
    current,          \* main: the current input value
    i,                \* main: iteration number; run_bulk_iteration: batch offset
    inputs,           \* run_bulk_iteration: the input list
    results,          \* the accumulated result list
    protect_response, \* the protect response of the round trip under way
    protected_token,  \* run_iteration: the extracted token
    protected_list,   \* run_bulk_iteration: the extracted token list
    calls,            \* every request sent so far, with what the client returned
    inc_call,         \* the last increment_numeric_string call and its outcome
    direct_call,      \* a client function called directly: name, argument, outcome
    loop_exit,        \* why the iterative loop ended
    bulk_runs,        \* script: the run_bulk_iteration calls that have returned
    main_result,      \* "running", "return 0", or the exception that left main
    summary           \* the printed summary

vars == <<entry, config, pc, current, i, inputs, results, protect_response,
          protected_token, protected_list, calls, inc_call, direct_call,
          loop_exit, bulk_runs, main_result, summary>>

Pending == [kind |-> "pending"]

ReturnedResponse(r) == [kind |-> "returned", response |-> r]

RaisedError(e) == [kind |-> "raised", error |-> e]

Call(ep, payload) == [ep |-> ep, payload |-> payload, ret |-> Pending]

\* the last call gets its outcome
Complete(cs, ret) == [cs EXCEPT ![Len(cs)].ret = ret]

NoCall == [called |-> FALSE]

IncCall(s) == [called |-> TRUE, s |-> s, out |-> increment_numeric_string(s)]

NoResponse == APIResponse(JNull, JNull)

NoDirectCall == [fn |-> "none"]

DirectCall(fn, arg) == [fn |-> fn, arg |-> arg, returned |-> FALSE]

\* --start-data values: plain, about to overflow, all nines, not numeric
StartData ==
    { <<"0", "7">>, <<"9", "8">>, <<"9", "9">>, <<"9">>, <<"a", "1">> }

\* the input list of a direct run_bulk_iteration call: "001", "002", ...
RunnerInputs(n) == [j \in 1..n |-> format_0d(j, 3)]

Configs ==
    [start_data : StartData, iterations : 0..MaxIter, bulk : BOOLEAN,
     batch_size : 1..MaxBatch, show_bodies : BOOLEAN]

\* a direct call has a batch size and nothing else of the configuration
RunnerConfigs ==
    [start_data : {<<>>}, iterations : {0}, bulk : {TRUE},
     batch_size : 1..MaxBatch, show_bodies : {FALSE}]

InitCommon ==
    /\ i = IF entry \in {"cli", "script"} /\ ~config.bulk THEN 1 ELSE 0
    /\ bulk_runs = 0
    /\ results = <<>>
    /\ protect_response = NoResponse
    /\ protected_token = JNull
    /\ protected_list = <<>>
    /\ calls = <<>>
    /\ inc_call = NoCall
    /\ loop_exit = "no"
    /\ main_result = "running"
    /\ summary = NoSummary

InitCli ==
    /\ entry = "cli"
    /\ config \in Configs
    /\ pc = IF config.bulk THEN "build_inputs" ELSE "iter_loop"
    /\ current = config.start_data
    /\ inputs = <<>>
    /\ direct_call = NoDirectCall
    /\ InitCommon

\* the script takes the same options as cli.main
ScriptConfigs == {c \in Configs : c.start_data \in {<<"0", "7">>, <<"a", "1">>}}

InitScript ==
    /\ entry = "script"
    /\ config \in ScriptConfigs
    /\ pc = IF config.bulk THEN "script_build_inputs" ELSE "script_iter_loop"
    /\ current = config.start_data
    /\ inputs = <<>>
    /\ direct_call = NoDirectCall
    /\ InitCommon

InitRunner ==
    /\ entry = "runner"
    /\ config \in RunnerConfigs
    /\ pc = "bulk_loop"
    /\ current = <<>>
    /\ \E n \in 0..MaxInputs : inputs = RunnerInputs(n)
    /\ direct_call = NoDirectCall
    /\ InitCommon

\* every string over Alphabet of at most MaxLen characters
Strings == UNION {[1..n -> Alphabet] : n \in 0..MaxLen}

DefaultConfig ==
    [start_data |-> <<>>, iterations |-> 0, bulk |-> FALSE, batch_size |-> 1,
     show_bodies |-> FALSE]

InitUtils ==
    /\ entry = "utils"
    /\ config = DefaultConfig
    /\ pc = "call"
    /\ current \in Strings
    /\ inputs = <<>>
    /\ direct_call = NoDirectCall
    /\ InitCommon

\* what session.post is made to do when post_json is called directly
HttpStatuses == {200, 204, 301, 400, 404, 500, 503}

JsonBodies ==
    { JNull, JStr(ErrText), JInt(0), JList(<<JStr(ErrText)>>), ServerError,
      JDict(<<>>) }

HttpOutcomes ==
    {HttpJson(st, b) : st \in HttpStatuses, b \in JsonBodies}
    \cup {HttpText(st, t) : st \in HttpStatuses, t \in {<<>>, ErrText}}
    \cup {RequestException(ErrText)}
    \cup {RequestExceptionWith(ErrText, HttpJson(st, ServerError)) : st \in {400, 503}}
    \cup {RequestExceptionWith(ErrText, HttpText(st, ErrText)) : st \in {400, 503}}

PostJsonCalls ==
    {DirectCall("post_json", o) : o \in HttpOutcomes}

\* the values a key of a response body is given; <<>> leaves the key out
Field(key, vals) == {<<>>} \cup {<<KV(key, val)>> : val \in vals}

TokenValues(c) == {JStr(<<>>), JStr(<<c>>), JNull}

\* bodies for the single-item protect extraction
ProtectBodies ==
    {JDict(t \o p \o d) : t \in Field("token", TokenValues("c")),
                           p \in Field("protected", TokenValues("b")),
                           d \in Field("protected_data", TokenValues("a"))}
    \cup {JNull, JStr(ErrText), JList(<<JStr(ErrText)>>)}

ExtractProtectedCalls ==
    {DirectCall("extract_protected_from_protect_response", APIResponse(JInt(200), b)) :
        b \in ProtectBodies}

\* a reveal body with the keys RestoredKeys[j], j \in S, inserted from the last
\* candidate to the first; the key numbered e holds an empty string
RECURSIVE RevealPairs(_, _, _)
RevealPairs(S, e, j) ==
    IF j = 0 THEN <<>>
    ELSE (IF j \in S
          THEN <<KV(RestoredKeys[j], JStr(IF j = e THEN <<>> ELSE str_int(j)))>>
          ELSE <<>>) \o RevealPairs(S, e, j - 1)

RevealBodies ==
    {JDict(RevealPairs(S, e, Len(RestoredKeys))) :
        S \in SUBSET (1..Len(RestoredKeys)), e \in 0..Len(RestoredKeys)}
    \cup {JNull, JStr(ErrText), JList(<<JStr(ErrText)>>)}

ExtractRestoredCalls ==
    {DirectCall("extract_restored_from_reveal_response", APIResponse(JInt(200), b)) :
        b \in RevealBodies}

Item(key, c) == JDict(<<KV(key, JStr(<<c>>))>>)

\* bodies for the bulk protect extraction: every combination of the three
\* keys being absent, holding a list, or holding something else
BulkProtectBodies ==
    {JDict(r \o a \o d \o <<KV("status", JStr(<<"o", "k">>))>>) :
        r \in Field("results",
                    {JList(<<Item("protected_data", "e"), Item("protected_data", "f")>>),
                     JList(<<Item("id", "g")>>), JStr(ErrText)}),
        a \in Field("protected_data_array",
                    {JList(<<Item("protected_data", "c"), Item("id", "g"),
                             Item("protected_data", "d")>>),
                     JList(<<JStr(<<"x">>)>>), JList(<<>>), JNull}),
        d \in Field("protected_data",
                    {JList(<<JStr(<<"a">>), JInt(12)>>), JList(<<>>), JStr(<<"a">>)})}
    \cup {JNull, JStr(ErrText), JInt(7), JDict(<<>>), JList(<<>>),
          JList(<<JStr(<<"a">>), JInt(12), JNull>>)}

ExtractProtectedListCalls ==
    {DirectCall("extract_protected_list_from_protect_response", APIResponse(JInt(200), b)) :
        b \in BulkProtectBodies}

\* bodies for the bulk reveal extraction
BulkRevealBodies ==
    {JDict(t \o r \o s \o d) :
        t \in Field("items", {JList(<<JStr(<<"x">>)>>), JStr(ErrText)}),
        r \in Field("results",
                    {JList(<<Item("data", "e"), Item("value", "f")>>),
                     JList(<<JStr(<<"e">>), JInt(12)>>), JStr(ErrText)}),
        s \in Field("restored", {JList(<<JStr(<<"c">>)>>), JNull}),
        d \in Field("data", {JList(<<JStr(<<"a">>), JInt(12)>>), JStr(<<"a">>)})}
    \cup {JNull, JStr(ErrText), JList(<<JStr(<<"a">>), JInt(12)>>),
          JDict(<<KV("data_array", JList(<<Item("data", "a")>>))>>)}

\* bodies in which none of data, restored, results, items holds a list:
\* data_array absent, a list, or something else, among scalar and other fields
FallbackRevealBodies ==
    {JDict(c \o a \o e \o d \o n) :
        c \in Field("code", {JInt(500), JNull}),
        a \in Field("data_array",
                    {JList(<<Item("data", "a"), Item("data", "b")>>),
                     JList(<<Item("data", "a"), JStr(<<"x">>), Item("id", "g")>>),
                     JList(<<>>), JStr(<<"x">>)}),
        e \in Field("error", {JStr(ErrText)}),
        d \in Field("data", {JStr(<<"a">>), JDict(<<>>)}),
        n \in Field("detail", {JDict(<<KV("reason", JStr(ErrText))>>)})}
    \cup {JNull, JStr(ErrText), JInt(7)}

ExtractRestoredListCalls ==
    {DirectCall(fn, APIResponse(JInt(200), b)) :
        fn \in {"extract_restored_list_from_reveal_response",
                "script.extract_restored_list_from_reveal_response"},
        b \in BulkRevealBodies \cup FallbackRevealBodies}

\* status codes for is_success: None for a transport failure, HTTP statuses of
\* every class, and integers outside the HTTP range
StatusCodes ==
    {JNull} \cup {JInt(n) : n \in {0, 2, 5, 20, 29, 100, 102, 199, 200, 201, 204, 226, 299,
                                  300, 302, 400, 404, 420, 500, 502, 520, 2000, 3200}}

IsSuccessCalls ==
    {DirectCall("is_success", APIResponse(st, b)) :
        st \in StatusCodes, b \in {JNull, ServerError}}

InitClient ==
    /\ entry = "client"
    /\ config = DefaultConfig
    /\ pc = "call"
    /\ current = <<>>
    /\ inputs = <<>>
    /\ \/ direct_call \in PostJsonCalls
       \/ direct_call \in ExtractProtectedCalls
       \/ direct_call \in ExtractRestoredCalls
       \/ direct_call \in ExtractProtectedListCalls
       \/ direct_call \in ExtractRestoredListCalls
       \/ direct_call \in IsSuccessCalls
    /\ InitCommon

Init == InitCli \/ InitScript \/ InitRunner \/ InitUtils \/ InitClient

\* ------------------------------------------- utils.increment_numeric_string
IncrementCall ==
    /\ entry = "utils"
    /\ pc = "call"
    /\ inc_call' = IncCall(current)
    /\ pc' = IF inc_call'.out.raised = "no" THEN "returned" ELSE "raised"
    /\ UNCHANGED <<entry, config, direct_call, bulk_runs, current, i, inputs, results, protect_response,
                   protected_token, protected_list, calls, loop_exit,
                   main_result, summary>>

\* ------------------------------------------------- client.py, called directly
Apply(fn, arg) ==
    CASE fn = "post_json" -> Returned(post_json(arg))
      [] fn = "is_success" -> Returned(is_success(arg))
      [] fn = "extract_protected_from_protect_response" ->
            Returned(extract_protected_from_protect_response(arg))
      [] fn = "extract_restored_from_reveal_response" ->
            Returned(extract_restored_from_reveal_response(arg))
      [] fn = "extract_protected_list_from_protect_response" ->
            Returned(extract_protected_list_from_protect_response(arg))
      [] fn = "extract_restored_list_from_reveal_response" ->
            Returned(extract_restored_list_from_reveal_response(arg))
      [] fn = "script.extract_restored_list_from_reveal_response" ->
            Returned(script_extract_restored_list_from_reveal_response(arg))

ClientCall ==
    /\ entry = "client"
    /\ pc = "call"
    /\ direct_call' = [fn |-> direct_call.fn, arg |-> direct_call.arg, returned |-> TRUE,
                       out |-> Apply(direct_call.fn, direct_call.arg)]
    /\ pc' = "returned"
    /\ UNCHANGED <<entry, config, bulk_runs, current, i, inputs, results, protect_response,
                   protected_token, protected_list, calls, inc_call, loop_exit,
                   main_result, summary>>

\* ------------------------------------------------ cli.main, iterative mode
\* run_iteration starts: the protect request goes out
CallRunIteration ==
    /\ entry = "cli"
    /\ pc = "iter_loop"
    /\ i <= config.iterations
    /\ calls' = Append(calls, Call("protect", protect_payload(current)))
    /\ pc' = "protect_wait"
    /\ UNCHANGED <<entry, config, direct_call, bulk_runs, current, i, inputs, results, protect_response,
                   protected_token, protected_list, inc_call, loop_exit,
                   main_result, summary>>

\* the protect response arrives; the token is extracted and the reveal
\* request goes out
ProtectResponse ==
    /\ pc = "protect_wait"
    /\ \E o \in ProtectOutcomes(current) :
         LET resp == post_json(o)
             token == extract_protected_from_protect_response(resp)
         IN  /\ protect_response' = resp
             /\ protected_token' = token
             /\ calls' = Append(Complete(calls, ReturnedResponse(resp)),
                                Call("reveal", reveal_payload(token)))
    /\ pc' = "reveal_wait"
    /\ UNCHANGED <<entry, config, direct_call, bulk_runs, current, i, inputs, results, protected_list,
                   inc_call, loop_exit, main_result, summary>>

\* a plausible slip: a failed increment is swallowed and the loop goes on with
\* the same value
RevealResponse_ignoring_ValueError ==
    /\ pc = "reveal_wait"
    /\ \E o \in RevealOutcomes(calls[Len(calls)].payload.protected_data) :
         LET resp == post_json(o)
             restored == extract_restored_from_reveal_response(resp)
             result == IterationResult(current, protect_response, resp,
                                       protected_token, restored)
             out == increment_numeric_string(current)
         IN  /\ calls' = Complete(calls, ReturnedResponse(resp))
             /\ results' = Append(results, result)
             /\ IF config.show_bodies /\ show_bodies_raises(protect_response, resp)
                THEN \* except Exception: break
                     /\ loop_exit' = "Exception"
                     /\ pc' = "iter_summary"
                     /\ UNCHANGED <<current, i, inc_call>>
                ELSE /\ inc_call' = IncCall(current)
                     /\ IF out.raised # "no"
                        THEN /\ i' = i + 1
                             /\ pc' = "iter_loop"
                             /\ UNCHANGED <<current, loop_exit>>
                        ELSE /\ current' = out.value
                             /\ i' = i + 1
                             /\ pc' = "iter_loop"
                             /\ UNCHANGED loop_exit
    /\ UNCHANGED <<entry, config, direct_call, bulk_runs, inputs, protect_response, protected_token,
                   protected_list, main_result, summary>>

\* the reveal response arrives; run_iteration returns and the rest of the
\* loop body runs: append, --show-bodies output, increment
RevealResponse ==
    /\ pc = "reveal_wait"
    /\ \E o \in RevealOutcomes(calls[Len(calls)].payload.protected_data) :
         LET resp == post_json(o)
             restored == extract_restored_from_reveal_response(resp)
             result == IterationResult(current, protect_response, resp,
                                       protected_token, restored)
             out == increment_numeric_string(current)
         IN  /\ calls' = Complete(calls, ReturnedResponse(resp))
             /\ results' = Append(results, result)
             /\ IF config.show_bodies /\ show_bodies_raises(protect_response, resp)
                THEN \* except Exception: break
                     /\ loop_exit' = "Exception"
                     /\ pc' = "iter_summary"
                     /\ UNCHANGED <<current, i, inc_call>>
                ELSE /\ inc_call' = IncCall(current)
                     /\ IF out.raised # "no"
                        THEN \* except ValueError: break
                             /\ loop_exit' = "ValueError"
                             /\ pc' = "iter_summary"
                             /\ UNCHANGED <<current, i>>
                        ELSE /\ current' = out.value
                             /\ i' = i + 1
                             /\ pc' = "iter_loop"
                             /\ UNCHANGED loop_exit
    /\ UNCHANGED <<entry, config, direct_call, bulk_runs, inputs, protect_response, protected_token,
                   protected_list, main_result, summary>>

SuccessFlags(rs) == [j \in 1..Len(rs) |-> success(rs[j])]

MatchFlags(rs) == [j \in 1..Len(rs) |-> match(rs[j])]

\* the loop is over: the summary is printed and main returns 0
IterSummary ==
    /\ entry = "cli"
    /\ \/ pc = "iter_summary"
       \/ pc = "iter_loop" /\ i > config.iterations
    /\ summary' = Summary(Len(results), CountTrue(SuccessFlags(results)),
                          CountTrue(MatchFlags(results)))
    /\ loop_exit' = IF loop_exit = "no" THEN "exhausted" ELSE loop_exit
    /\ main_result' = "return 0"
    /\ pc' = "done"
    /\ UNCHANGED <<entry, config, direct_call, bulk_runs, current, i, inputs, results, protect_response,
                   protected_token, protected_list, calls, inc_call>>

\* ----------------------------------------------------- cli.main, bulk mode
BuildInputs ==
    /\ entry = "cli"
    /\ pc = "build_inputs"
    /\ inputs' = build_inputs(config.start_data, config.iterations)
    /\ pc' = "bulk_loop"
    /\ UNCHANGED <<entry, config, direct_call, bulk_runs, current, i, results, protect_response,
                   protected_token, protected_list, calls, inc_call, loop_exit,
                   main_result, summary>>

\* ------------------------------------------------ runner.run_bulk_iteration
Batch == batch_of(inputs, i, config.batch_size)

\* the next batch is cut and protect_bulk sends it
CallProtectBulk ==
    /\ entry \in {"cli", "script", "runner"}
    /\ pc = "bulk_loop"
    /\ i < Len(inputs)
    /\ calls' = Append(calls, Call("protectbulk", protect_bulk_payload(Batch)))
    /\ pc' = "protect_bulk_wait"
    /\ UNCHANGED <<entry, config, direct_call, bulk_runs, current, i, inputs, results, protect_response,
                   protected_token, protected_list, inc_call, loop_exit,
                   main_result, summary>>

\* a plausible slip: the token list is not reset per batch but grows
AfterProtectBulk_accumulating(ret, resp) ==
    LET tokens == protected_list \o extract_protected_list_from_protect_response(resp)
    IN  /\ protect_response' = resp
        /\ protected_list' = tokens
        /\ calls' = Append(Complete(calls, ret),
                           Call("revealbulk", reveal_bulk_payload(tokens)))
        /\ pc' = "reveal_bulk_wait"
        /\ UNCHANGED <<entry, config, direct_call, bulk_runs, current, i, inputs, results,
                       protected_token, inc_call, loop_exit, main_result, summary>>

\* a plausible slip: reveal_bulk is sent and the loop moves on to the next
\* batch without waiting for its response
AfterProtectBulk_no_wait(ret, resp) ==
    LET tokens == extract_protected_list_from_protect_response(resp)
    IN  /\ protect_response' = resp
        /\ protected_list' = tokens
        /\ calls' = Append(Complete(calls, ret),
                           Call("revealbulk", reveal_bulk_payload(tokens)))
        /\ i' = i + config.batch_size
        /\ pc' = "bulk_loop"
        /\ UNCHANGED <<entry, config, direct_call, bulk_runs, current, inputs, results,
                       protected_token, inc_call, loop_exit, main_result, summary>>

\* protect_resp is known: the tokens are extracted and reveal_bulk sends them
AfterProtectBulk(ret, resp) ==
    LET tokens == extract_protected_list_from_protect_response(resp)
    IN  /\ protect_response' = resp
        /\ protected_list' = tokens
        /\ calls' = Append(Complete(calls, ret),
                           Call("revealbulk", reveal_bulk_payload(tokens)))
        /\ pc' = "reveal_bulk_wait"
        /\ UNCHANGED <<entry, config, direct_call, bulk_runs, current, i, inputs, results,
                       protected_token, inc_call, loop_exit, main_result, summary>>

\* reveal_resp is known: the restored values are extracted, the batch result
\* is appended and the loop moves on by batch_size
AfterRevealBulk(ret, resp) ==
    LET restored == extract_restored_list_from_reveal_response(resp)
    IN  /\ calls' = Complete(calls, ret)
        /\ results' = Append(results,
                             BulkIterationResult(Batch, protect_response, resp,
                                                 protected_list, restored))
        /\ i' = i + config.batch_size
        /\ pc' = "bulk_loop"
        /\ UNCHANGED <<entry, config, direct_call, bulk_runs, current, inputs, protect_response,
                       protected_token, protected_list, inc_call, loop_exit,
                       main_result, summary>>

\* the client of cli.main returns a response for every outcome; the strict
\* client of a direct call returns the 2xx responses and raises APIError for
\* everything else; the script is run against a server that answers every
\* bulk request, with status 200 or with the 500 error body
Returns(outcomes) ==
    IF entry = "runner"
    THEN {o \in outcomes : o.kind = "response" /\ o.status_code \in 200..299}
    ELSE IF entry = "script"
    THEN {o \in outcomes :
             o.kind = "response" /\ (o.status_code = 200 \/ o = HttpJson(500, ServerError))}
    ELSE outcomes

ProtectBulkReturns ==
    /\ pc = "protect_bulk_wait"
    /\ \E o \in Returns(BulkProtectOutcomes(Batch)) :
         AfterProtectBulk(ReturnedResponse(post_json(o)), post_json(o))

ProtectBulkRaises ==
    /\ pc = "protect_bulk_wait"
    /\ entry = "runner"
    /\ \E e \in APIErrors : AfterProtectBulk(RaisedError(e), response_of_error(e))

RevealBulkReturns ==
    /\ pc = "reveal_bulk_wait"
    /\ \E o \in Returns(BulkRevealOutcomes(protected_list)) :
         AfterRevealBulk(ReturnedResponse(post_json(o)), post_json(o))

RevealBulkRaises ==
    /\ pc = "reveal_bulk_wait"
    /\ entry = "runner"
    /\ \E e \in APIErrors : AfterRevealBulk(RaisedError(e), response_of_error(e))

\* the batches are used up: run_bulk_iteration returns the result list
BulkReturn ==
    /\ entry \in {"cli", "runner"}
    /\ pc = "bulk_loop"
    /\ i >= Len(inputs)
    /\ pc' = IF entry = "cli" THEN "bulk_report" ELSE "returned"
    /\ UNCHANGED <<entry, config, direct_call, bulk_runs, current, i, inputs, results, protect_response,
                   protected_token, protected_list, calls, inc_call, loop_exit,
                   main_result, summary>>

\* ----------------------------------------------------- cli.main, bulk mode
\* the per-batch --show-bodies output; nothing catches what it raises
BulkShowBodies ==
    /\ pc = "bulk_report"
    /\ IF /\ config.show_bodies
          /\ \E k \in 1..Len(results) :
                show_bodies_raises(results[k].protect_response, results[k].reveal_response)
       THEN /\ main_result' = "AttributeError"
            /\ pc' = "raised"
       ELSE /\ pc' = "bulk_summary"
            /\ UNCHANGED main_result
    /\ UNCHANGED <<entry, config, direct_call, bulk_runs, current, i, inputs, results, protect_response,
                   protected_token, protected_list, calls, inc_call, loop_exit,
                   summary>>

BulkSummary ==
    /\ pc = "bulk_summary"
    /\ summary' = Summary(SumSeq([k \in 1..Len(results) |-> Len(results[k].inputs)]),
                          SumSeq([k \in 1..Len(results) |-> successful_items_of(results[k])]),
                          SumSeq([k \in 1..Len(results) |-> CountTrue(matches(results[k]))]))
    /\ main_result' = "return 0"
    /\ pc' = "done"
    /\ UNCHANGED <<entry, config, direct_call, bulk_runs, current, i, inputs, results, protect_response,
                   protected_token, protected_list, calls, inc_call, loop_exit>>

\* ------------------------------------- protect_reveal.py, iterative mode
ScriptCallRunIteration ==
    /\ entry = "script"
    /\ pc = "script_iter_loop"
    /\ i <= config.iterations
    /\ calls' = Append(calls, Call("protect", protect_payload(current)))
    /\ pc' = "script_protect_wait"
    /\ UNCHANGED <<entry, config, direct_call, bulk_runs, current, i, inputs, results,
                   protect_response, protected_token, protected_list, inc_call,
                   loop_exit, main_result, summary>>

ScriptProtectResponse ==
    /\ pc = "script_protect_wait"
    /\ \E o \in ProtectOutcomes(current) :
         LET resp == post_json(o)
             token == extract_protected_from_protect_response(resp)
         IN  /\ protect_response' = resp
             /\ protected_token' = token
             /\ calls' = Append(Complete(calls, ReturnedResponse(resp)),
                                Call("reveal", reveal_payload(token)))
    /\ pc' = "script_reveal_wait"
    /\ UNCHANGED <<entry, config, direct_call, bulk_runs, current, i, inputs, results,
                   protected_list, inc_call, loop_exit, main_result, summary>>

\* the reveal response arrives; run_iteration returns, the result is appended
\* and the value is incremented (the --show-bodies output cannot raise here)
ScriptRevealResponse ==
    /\ pc = "script_reveal_wait"
    /\ \E o \in RevealOutcomes(calls[Len(calls)].payload.protected_data) :
         LET resp == post_json(o)
             restored == extract_restored_from_reveal_response(resp)
             result == IterationResult(current, protect_response, resp,
                                       protected_token, restored)
             out == increment_numeric_string(current)
         IN  /\ calls' = Complete(calls, ReturnedResponse(resp))
             /\ results' = Append(results, result)
             /\ inc_call' = IncCall(current)
             /\ IF out.raised # "no"
                THEN \* except ValueError: break
                     /\ loop_exit' = "ValueError"
                     /\ pc' = "script_iter_summary"
                     /\ UNCHANGED <<current, i>>
                ELSE /\ current' = out.value
                     /\ i' = i + 1
                     /\ pc' = "script_iter_loop"
                     /\ UNCHANGED loop_exit
    /\ UNCHANGED <<entry, config, direct_call, bulk_runs, inputs, protect_response,
                   protected_token, protected_list, main_result, summary>>

\* an error that post_json does not catch (anything but a RequestException)
UnexpectedError == [kind |-> "Exception"]

\* the request under way raises an unexpected error, which leaves
\* run_iteration: `except Exception: ... continue` goes to the next pass of
\* the loop, past the append and past the increment
ScriptIterationRaises ==
    /\ pc \in {"script_protect_wait", "script_reveal_wait"}
    /\ calls' = Complete(calls, RaisedError(UnexpectedError))
    /\ i' = i + 1
    /\ pc' = "script_iter_loop"
    /\ UNCHANGED <<entry, config, direct_call, bulk_runs, current, inputs, results,
                   protect_response, protected_token, protected_list, inc_call,
                   loop_exit, main_result, summary>>

\* the loop is over: the summary is printed and main returns 0
ScriptIterSummary ==
    /\ entry = "script"
    /\ \/ pc = "script_iter_summary"
       \/ pc = "script_iter_loop" /\ i > config.iterations
    /\ summary' = Summary(Len(results), CountTrue(SuccessFlags(results)),
                          CountTrue(MatchFlags(results)))
    /\ loop_exit' = IF loop_exit = "no" THEN "exhausted" ELSE loop_exit
    /\ main_result' = "return 0"
    /\ pc' = "done"
    /\ UNCHANGED <<entry, config, direct_call, bulk_runs, current, i, inputs, results,
                   protect_response, protected_token, protected_list, calls, inc_call>>

\* ------------------------------------------ protect_reveal.py, bulk mode
ScriptBuildInputs ==
    /\ entry = "script"
    /\ pc = "script_build_inputs"
    /\ inputs' = build_inputs(config.start_data, config.iterations)
    /\ pc' = "bulk_loop"
    /\ UNCHANGED <<entry, config, direct_call, bulk_runs, current, i, results,
                   protect_response, protected_token, protected_list, calls, inc_call,
                   loop_exit, main_result, summary>>

\* run_bulk_iteration returns. main calls it two times in a row with the same
\* inputs and keeps the result list of the second call
ScriptBulkReturn ==
    /\ entry = "script"
    /\ pc = "bulk_loop"
    /\ i >= Len(inputs)
    /\ bulk_runs' = bulk_runs + 1
    /\ IF bulk_runs = 0
       THEN /\ i' = 0
            /\ results' = <<>>
            /\ pc' = "bulk_loop"
       ELSE /\ pc' = "script_bulk_report"
            /\ UNCHANGED <<i, results>>
    /\ UNCHANGED <<entry, config, direct_call, current, inputs,
                   protect_response, protected_token, protected_list, calls, inc_call,
                   loop_exit, main_result, summary>>

ScriptBulkSummary(batches, items) == [printed |-> TRUE, batches |-> batches, items |-> items]

\* the per-batch --show-bodies output and the bulk run summary; what the
\* output raises leaves main and the wrapper exits with status 1
ScriptBulkReport ==
    /\ pc = "script_bulk_report"
    /\ IF /\ config.show_bodies
          /\ \E k \in 1..Len(results) :
                show_bodies_raises(results[k].protect_response, results[k].reveal_response)
       THEN /\ main_result' = "SystemExit(1)"
            /\ pc' = "raised"
            /\ UNCHANGED summary
       ELSE /\ summary' = ScriptBulkSummary(Len(results),
                               SumSeq([k \in 1..Len(results) |-> Len(results[k].inputs)]))
            /\ main_result' = "return 0"
            /\ pc' = "done"
    /\ UNCHANGED <<entry, config, direct_call, bulk_runs, current, i, inputs, results,
                   protect_response, protected_token, protected_list, calls, inc_call,
                   loop_exit>>

\* ------------------------------------------------------------ specification
Next ==
    \/ IncrementCall
    \/ ClientCall
    \/ CallRunIteration
    \/ ProtectResponse
    \/ RevealResponse
    \/ IterSummary
    \/ BuildInputs
    \/ CallProtectBulk
    \/ ProtectBulkReturns
    \/ ProtectBulkRaises
    \/ RevealBulkReturns
    \/ RevealBulkRaises
    \/ BulkReturn
    \/ BulkShowBodies
    \/ BulkSummary
    \/ ScriptCallRunIteration
    \/ ScriptProtectResponse
    \/ ScriptRevealResponse
    \/ ScriptIterationRaises
    \/ ScriptIterSummary
    \/ ScriptBuildInputs
    \/ ScriptBulkReturn
    \/ ScriptBulkReport

Spec == Init /\ [][Next]_vars

\* an iterative run of cli.main on its own. Its single thread always takes its
\* next step, and every request ends within the configured timeout with a
\* response or a RequestException: the steps of the run are weakly fair.
InitIter == InitCli /\ ~config.bulk

IterNext ==
    \/ CallRunIteration
    \/ ProtectResponse
    \/ RevealResponse
    \/ IterSummary

IterSpec == InitIter /\ [][IterNext]_vars /\ WF_vars(IterNext)

\* ---------------------------------------------------------------- claims
BulkMode == entry = "runner" \/ (entry = "cli" /\ config.bulk)

IterMode == entry = "cli" /\ ~config.bulk

\* run_bulk_iteration has returned
BulkDone == BulkMode /\ pc \in {"returned", "bulk_report", "bulk_summary", "done", "raised"}

\* each round trip makes two calls: the protect call and the reveal call
ProtectCall(k) == calls[2 * k - 1]

RevealCall(k) == calls[2 * k]

Elems(xs) == {xs[j] : j \in 1..Len(xs)}

Ceil(n, b) == IF n % b = 0 THEN n \div b ELSE (n \div b) + 1

Is2xx(status) == status.t = "int" /\ status.v \in 200..299

RECURSIVE Concat(_)
Concat(xss) == IF Len(xss) = 0 THEN <<>> ELSE Head(xss) \o Concat(Tail(xss))

\* C1: run_bulk_iteration drops no batch: one result per batch in batch
\* order; result k carries the status code protect_bulk returned for batch k,
\* and its protect response is a success exactly for a 2xx status.
C1_NoBatchDropped ==
    /\ BulkMode =>
         \A k \in 1..Len(results) :
            /\ ProtectCall(k).payload.data = results[k].inputs
            /\ results[k].inputs =
                 SubSeq(inputs, (k - 1) * config.batch_size + 1,
                        Min(k * config.batch_size, Len(inputs)))
            /\ ProtectCall(k).ret.kind = "returned" =>
                 /\ results[k].protect_response.status_code =
                      ProtectCall(k).ret.response.status_code
                 /\ is_success(results[k].protect_response) <=>
                      Is2xx(ProtectCall(k).ret.response.status_code)
    /\ BulkDone => Len(results) = Ceil(Len(inputs), config.batch_size)

\* the partial failure scenario: a 2xx batch followed by a 500 batch, both kept
C1_Witness ==
    /\ BulkDone
    /\ Len(results) = 2
    /\ ProtectCall(1).ret.kind = "returned"
    /\ ProtectCall(2).ret.kind = "returned"
    /\ results[1].protect_response.status_code = JInt(200)
    /\ is_success(results[1].protect_response)
    /\ results[2].protect_response.status_code = JInt(500)
    /\ ~is_success(results[2].protect_response)

\* C2: for n inputs and batch size b >= 1 there are ceil(n/b) results; the
\* batches concatenated give the inputs back; every batch has at most b items
\* and only the last one may have fewer.
C2_Partition ==
    BulkDone =>
       LET n == Len(inputs)
           b == config.batch_size
       IN  /\ Len(results) = Ceil(n, b)
           /\ Concat([k \in 1..Len(results) |-> results[k].inputs]) = inputs
           /\ \A k \in 1..Len(results) :
                 /\ Len(results[k].inputs) <= b
                 /\ k < Len(results) => Len(results[k].inputs) = b

\* a full batch followed by a shorter last batch
C2_Witness ==
    /\ BulkDone
    /\ Len(inputs) = 3
    /\ config.batch_size = 2
    /\ Len(results) = 2
    /\ Len(results[1].inputs) = 2
    /\ Len(results[2].inputs) = 1

\* C3: the list sent by reveal_bulk for batch k is the token list extracted
\* from batch k's own protect response, result k records those tokens and the
\* values extracted from batch k's own reveal response, and nothing of
\* another batch shows up in result k.
C3_BatchIsolation ==
    BulkMode =>
       \A k \in 1..Len(results) :
          LET r == results[k]
              tokens == extract_protected_list_from_protect_response(r.protect_response)
          IN  /\ ProtectCall(k).ep = "protectbulk"
              /\ ProtectCall(k).payload.data = r.inputs
              /\ ProtectCall(k).ret.kind = "returned" =>
                    r.protect_response = ProtectCall(k).ret.response
              /\ RevealCall(k).ep = "revealbulk"
              /\ RevealCall(k).payload.protected_data = tokens
              /\ RevealCall(k).ret.kind = "returned" =>
                    r.reveal_response = RevealCall(k).ret.response
              /\ r.protected_tokens = tokens
              /\ r.restored_values =
                    extract_restored_list_from_reveal_response(r.reveal_response)
              /\ \A j \in (1..Len(results)) \ {k} :
                    \A x \in Elems(results[j].inputs) :
                       /\ Tok(x) \notin Elems(r.protected_tokens)
                       /\ x \notin Elems(r.restored_values)

\* a batch with fewer tokens than inputs, then a batch with all its tokens
C3_Witness ==
    /\ BulkDone
    /\ Len(results) = 2
    /\ Len(results[1].inputs) = 2
    /\ Len(results[1].protected_tokens) = 1
    /\ RevealCall(1).payload.protected_data = results[1].protected_tokens
    /\ Len(results[2].protected_tokens) = Len(results[2].inputs)
    /\ results[2].restored_values = results[2].inputs

\* C4: run_iteration issues one protect request and then one reveal request,
\* the reveal only once the protect response is there and for every protect
\* outcome; the reveal carries the extracted token, or "" when there is none.
C4_ProtectThenReveal ==
    IterMode =>
       /\ \A j \in 1..Len(calls) :
             /\ calls[j].ep = IF j % 2 = 1 THEN "protect" ELSE "reveal"
             /\ j < Len(calls) => calls[j].ret.kind = "returned"
       /\ pc \in {"iter_loop", "iter_summary", "done"} =>
             /\ Len(calls) = 2 * Len(results)
             /\ calls # <<>> => calls[Len(calls)].ret.kind = "returned"
       /\ pc = "reveal_wait" => Len(calls) = 2 * Len(results) + 2
       /\ \A k \in 1..Len(results) :
             LET r == results[k]
             IN  /\ ProtectCall(k).payload.data = r.data
                 /\ ProtectCall(k).ret.response = r.protect_response
                 /\ r.protected_token =
                       extract_protected_from_protect_response(r.protect_response)
                 /\ RevealCall(k).payload.protected_data =
                       IF r.protected_token.t = "null" THEN JStr(<<>>)
                       ELSE r.protected_token
                 /\ RevealCall(k).ret.response = r.reveal_response

\* a round trip whose protect call got no HTTP response: reveal was sent with ""
C4_Witness ==
    /\ IterMode
    /\ Len(results) >= 1
    /\ results[1].protect_response.status_code = JNull
    /\ results[1].protected_token = JNull
    /\ RevealCall(1).ep = "reveal"
    /\ RevealCall(1).payload.protected_data = JStr(<<>>)
    /\ RevealCall(1).ret.kind = "returned"

AllProtectInputs ==
    UNION { IF calls[j].ep = "protect" THEN {calls[j].payload.data}
            ELSE IF calls[j].ep = "protectbulk" THEN Elems(calls[j].payload.data)
            ELSE {} : j \in 1..Len(calls) }

\* C5: in every run of cli.main that starts from a numeric value, every input
\* sent to a protect endpoint is all digits and as wide as the starting value
\* (on overflow the run stops instead of going on with a wider value).
C5_FixedWidthInputs ==
    (entry = "cli" /\ isdigit(config.start_data)) =>
       \A x \in AllProtectInputs :
          isdigit(x) /\ Len(x) = Len(config.start_data)

\* the next value by ripple carry, written without int() and format()
RECURSIVE Succ(_)
Succ(s) ==
    IF Len(s) = 0 THEN <<"1">>
    ELSE IF s[Len(s)] = "9" THEN Succ(SubSeq(s, 1, Len(s) - 1)) \o <<"0">>
    ELSE SubSeq(s, 1, Len(s) - 1) \o <<Digits[DigitVal(s[Len(s)]) + 2]>>

AllNines(s) == \A j \in 1..Len(s) : s[j] = "9"

C7_InvalidInput ==
    (inc_call.called
       /\ (Len(inc_call.s) = 0 \/ \E j \in 1..Len(inc_call.s) : inc_call.s[j] \notin DigitChars)) =>
       /\ inc_call.out.raised = "ValueError"
       /\ "value" \notin DOMAIN inc_call.out

\* a string that mixes letters and digits, like "abc123"
C7_Witness ==
    /\ inc_call.called
    /\ inc_call.s = <<"a", "1", "2">>
    /\ inc_call.out = ValueError

CountCalls(ep) == Cardinality({j \in 1..Len(calls) : calls[j].ep = ep})

\* C8: when an unexpected error is raised in an iteration of the iterative
\* loop of main, the loop goes on with the next iteration: the remaining
\* iterations are still run.
C8_LoopContinuesAfterError ==
    (IterMode /\ pc = "done" /\ loop_exit = "Exception" /\ isdigit(config.start_data)) =>
       CountCalls("protect") = config.iterations

\* C9: every run of cli.main reaches the summary and returns 0; no exception
\* leaves main, whatever the server answers and whatever the display flags.
C9_AlwaysSummaryAndZero ==
    entry = "cli" =>
       /\ main_result \in {"running", "return 0"}
       /\ pc # "raised"
       /\ main_result = "return 0" => summary.printed

\* C10: an APIError raised by protect_bulk or reveal_bulk for batch k does not
\* leave run_bulk_iteration: batch k gets a result whose response carries the
\* status code and body salvaged from the error (None when there is nothing
\* to salvage), and the later batches are processed.
Salvaged(err, response) ==
    IF err.response = <<>>
    THEN response.status_code = err.status_code /\ response.body = JNull
    ELSE /\ response.status_code = JInt(err.response[1].status_code)
         /\ response.body = IF err.response[1].json # <<>>
                            THEN err.response[1].json[1]
                            ELSE JStr(err.response[1].text)

C10_ErrorsAbsorbed ==
    entry = "runner" =>
       /\ pc # "raised"
       /\ \A k \in 1..Len(results) :
             /\ ProtectCall(k).ret.kind = "raised" =>
                   Salvaged(ProtectCall(k).ret.error, results[k].protect_response)
             /\ RevealCall(k).ret.kind = "raised" =>
                   Salvaged(RevealCall(k).ret.error, results[k].reveal_response)
       /\ pc = "returned" =>
             /\ Len(results) = Ceil(Len(inputs), config.batch_size)
             /\ Len(calls) = 2 * Len(results)

\* batch 1 fails with a bare APIError(502) on protect and another on reveal,
\* batch 2 is still processed and succeeds
C10_Witness ==
    /\ entry = "runner"
    /\ pc = "returned"
    /\ Len(results) = 2
    /\ ProtectCall(1).ret = RaisedError(APIError(JInt(502), <<>>))
    /\ results[1].protect_response = APIResponse(JInt(502), JNull)
    /\ RevealCall(1).ret = RaisedError(APIError(JNull, <<>>))
    /\ results[1].reveal_response = APIResponse(JNull, JNull)
    /\ is_success(results[2].protect_response)
    /\ is_success(results[2].reveal_response)

\* ---------------------------------------------------------------- C11..C20
DirectReturned(fn) ==
    entry = "client" /\ pc = "returned" /\ direct_call.fn = fn

\* C11: post_json returns, for an HTTP response of any status, a response
\* with that status code and the parsed JSON body (the raw text when the body
\* is not JSON); for a RequestException that carries no response it returns a
\* response with no status code and str(exc) as its body.
C11_PostJsonNeverRaises ==
    DirectReturned("post_json") =>
       LET o == direct_call.arg
           r == direct_call.out.value
       IN  /\ direct_call.out.raised = "no"
           /\ o.kind = "response" /\ o.json # <<>> =>
                r = [status_code |-> JInt(o.status_code), body |-> o.json[1]]
           /\ o.kind = "response" /\ o.json = <<>> =>
                r = [status_code |-> JInt(o.status_code), body |-> JStr(o.text)]
           /\ o.kind = "RequestException" /\ o.response = <<>> =>
                r = [status_code |-> JNull, body |-> JStr(o.str)]

\* a 503 whose body is JSON comes back as (503, body)
C11_Witness ==
    /\ DirectReturned("post_json")
    /\ direct_call.arg = HttpJson(503, ServerError)
    /\ direct_call.out = Returned(APIResponse(JInt(503), ServerError))

\* the value of the first key of keys that is present in body, None when the
\* body is not a mapping or has none of them
FirstPresent(body, keys) ==
    IF body.t # "dict" THEN JNull
    ELSE LET present == {j \in 1..Len(keys) : Has(body, keys[j])}
         IN  IF present = {} THEN JNull
             ELSE Get(body, keys[CHOOSE j \in present : \A m \in present : j <= m])

\* C12: extract_protected_from_protect_response returns the value of the
\* first key present among protected_data, protected, token, whatever the
\* value is (also an empty string), and None when the body is not a mapping
\* or has none of the three keys.
C12_FirstPresentProtected ==
    DirectReturned("extract_protected_from_protect_response") =>
        direct_call.out =
            Returned(FirstPresent(direct_call.arg.body,
                                  <<"protected_data", "protected", "token">>))

\* C13: extract_restored_from_reveal_response returns the value of the first
\* key present among data, original, plain, revealed, unprotected_data,
\* unprotected, decrypted, for every subset of these keys, and None when the
\* body is not a mapping or has none of them.
C13_FirstPresentRestored ==
    DirectReturned("extract_restored_from_reveal_response") =>
        LET body == direct_call.arg.body
            keys == <<"data", "original", "plain", "revealed", "unprotected_data",
                      "unprotected", "decrypted">>
            out == direct_call.out
        IN  /\ out.raised = "no"
            /\ body.t # "dict" => out.value = JNull
            /\ body.t = "dict" =>
                 /\ (\A j \in 1..7 : ~Has(body, keys[j])) => out.value = JNull
                 /\ \A j \in 1..7 :
                       (Has(body, keys[j]) /\ \A m \in 1..(j - 1) : ~Has(body, keys[m]))
                          => out.value = Get(body, keys[j])

\* plain, unprotected and decrypted are present, plain holds an empty string:
\* the empty string is returned
C13_Witness ==
    /\ DirectReturned("extract_restored_from_reveal_response")
    /\ direct_call.arg.body =
          JDict(<<KV("decrypted", JStr(<<"7">>)), KV("unprotected", JStr(<<"6">>)),
                  KV("plain", JStr(<<>>))>>)
    /\ direct_call.out = Returned(JStr(<<>>))

\* every element of xs, stringified
Stringified(xs, out) ==
    /\ Len(out) = Len(xs)
    /\ \A j \in 1..Len(xs) : out[j] = py_str(xs[j])

\* the field key of every element of xs that is a mapping having it
FieldsOf(xs, key, out) ==
    LET good == SelectSeq(xs, LAMBDA item : item.t = "dict" /\ Has(item, key))
    IN  /\ Len(out) = Len(good)
        /\ \A j \in 1..Len(good) : out[j] = py_str(Get(good[j], key))

HoldsSequence(body, key) ==
    body.t = "dict" /\ Has(body, key) /\ Get(body, key).t = "list"

\* C14: extract_protected_list_from_protect_response never raises and applies
\* its shapes first-match-wins: a sequence body (elements stringified); a
\* mapping whose protected_data holds a sequence; a mapping whose
\* protected_data_array holds a sequence (protected_data of each element); a
\* mapping whose results holds a sequence (protected_data of each element);
\* the empty sequence for every other body.
C14_BulkProtectShapes ==
    DirectReturned("extract_protected_list_from_protect_response") =>
        LET body == direct_call.arg.body
            out == direct_call.out.value
        IN  /\ direct_call.out.raised = "no"
            /\ IF body.t = "list" THEN Stringified(body.v, out)
               ELSE IF HoldsSequence(body, "protected_data")
               THEN Stringified(Get(body, "protected_data").v, out)
               ELSE IF HoldsSequence(body, "protected_data_array")
               THEN FieldsOf(Get(body, "protected_data_array").v, "protected_data", out)
               ELSE IF HoldsSequence(body, "results")
               THEN FieldsOf(Get(body, "results").v, "protected_data", out)
               ELSE out = <<>>

\* protected_data holds a text, protected_data_array and results both hold
\* sequences of mappings: the tokens of protected_data_array are returned
C14_Witness ==
    /\ DirectReturned("extract_protected_list_from_protect_response")
    /\ LET body == direct_call.arg.body
       IN  /\ body.t = "dict"
           /\ Get(body, "protected_data") = JStr(<<"a">>)
           /\ HoldsSequence(body, "results")
           /\ Len(Get(body, "results").v) = 2
           /\ HoldsSequence(body, "protected_data_array")
    /\ direct_call.out = Returned(<< <<"c">>, <<"d">> >>)

\* for each element of xs, a mapping: its data, restored or value field,
\* whichever is present first
ResultFieldsOf(xs, out) ==
    /\ Len(out) = Len(xs)
    /\ \A j \in 1..Len(xs) :
          out[j] = py_str(FirstPresent(xs[j], <<"data", "restored", "value">>))

\* C15: on a mapping body, extract_restored_list_from_reveal_response (of
\* client.py and of the script) takes the first of the keys data, restored,
\* results, items that holds a sequence; if that key is results and its
\* elements are mappings, each output element is the element's data, restored
\* or value field; the elements of data, restored and items are stringified.
C15_BulkRevealKeyOrder ==
    (/\ entry = "client"
     /\ pc = "returned"
     /\ direct_call.fn \in {"extract_restored_list_from_reveal_response",
                            "script.extract_restored_list_from_reveal_response"}
     /\ direct_call.arg.body.t = "dict") =>
        LET body == direct_call.arg.body
            keys == <<"data", "restored", "results", "items">>
            holding == {j \in 1..4 : HoldsSequence(body, keys[j])}
            first == CHOOSE j \in holding : \A m \in holding : j <= m
            val == Get(body, keys[first]).v
            out == direct_call.out.value
        IN  holding # {} =>
               /\ keys[first] # "results" => Stringified(val, out)
               /\ (keys[first] = "results" /\ \A j \in 1..Len(val) : val[j].t = "dict")
                     => ResultFieldsOf(val, out)

\* C16: for every IterationResult of an iterative run, match is true exactly
\* when a restored value is present and equals the input, and success exactly
\* when the protect and the reveal response both have a 2xx status; the
\* summary counts these flags.
C16_MatchAndSuccess ==
    IterMode =>
       LET matching == {k \in 1..Len(results) : results[k].restored = JStr(results[k].data)}
           succeeding == {k \in 1..Len(results) :
                             /\ Is2xx(results[k].protect_response.status_code)
                             /\ Is2xx(results[k].reveal_response.status_code)}
       IN  /\ \A k \in 1..Len(results) :
                 /\ match(results[k]) <=> k \in matching
                 /\ success(results[k]) <=> k \in succeeding
                 /\ results[k].restored = JNull => ~match(results[k])
           /\ pc = "done" =>
                 /\ summary.matched = Cardinality(matching)
                 /\ summary.successful = Cardinality(succeeding)

\* a run of two iterations: "07" is protected and revealed back over two 200
\* responses (match and success), "08" is revealed to a wrong value over two
\* 200 responses (success, no match)
C16_Witness ==
    /\ IterMode
    /\ pc = "done"
    /\ Len(results) = 2
    /\ results[1].data = <<"0", "7">>
    /\ results[1].restored = JStr(<<"0", "7">>)
    /\ results[1].protect_response.status_code = JInt(200)
    /\ results[1].reveal_response.status_code = JInt(200)
    /\ match(results[1]) /\ success(results[1])
    /\ results[2].restored = JStr(<<"t", "0", "8">>)
    /\ success(results[2]) /\ ~match(results[2])
    /\ summary.matched = 1
    /\ summary.successful = 2

\* the first digit of the decimal form of n >= 0
RECURSIVE FirstDigit(_)
FirstDigit(n) == IF n < 10 THEN n ELSE FirstDigit(n \div 10)

\* C17: is_success is true exactly when the status code is present and the
\* first digit of its decimal form is 2; it is false when the status code is
\* absent and for every status with another first digit.
C17_IsSuccess ==
    DirectReturned("is_success") =>
        LET status == direct_call.arg.status_code
        IN  /\ direct_call.out.raised = "no"
            /\ direct_call.out.value
                  <=> (status # JNull /\ FirstDigit(status.v) = 2)
            /\ status = JNull => direct_call.out.value = FALSE

\* 204 is a success, and so is the one-digit status 2
C17_Witness ==
    /\ DirectReturned("is_success")
    /\ direct_call.arg.status_code \in {JInt(204), JInt(2)}
    /\ direct_call.out = Returned(TRUE)

\* the positions at which the restored value of b equals its input
MatchedPositions(b) ==
    {j \in 1..Len(b.inputs) :
        j <= Len(b.restored_values) /\ b.restored_values[j] = b.inputs[j]}

\* C18: matches of a BulkIterationResult has min(len(inputs),
\* len(restored_values)) elements, the j-th being true exactly when the j-th
\* restored value equals the j-th input; the matched count of a bulk summary
\* is the number of such positions and never exceeds the items attempted.
C18_BulkMatches ==
    BulkMode =>
       /\ \A k \in 1..Len(results) :
             LET b == results[k]
                 shorter == IF Len(b.inputs) <= Len(b.restored_values)
                            THEN Len(b.inputs) ELSE Len(b.restored_values)
             IN  /\ Len(matches(b)) = shorter
                 /\ \A j \in 1..shorter :
                       matches(b)[j] <=> (b.restored_values[j] = b.inputs[j])
       /\ (entry = "cli" /\ pc = "done") =>
             /\ summary.matched
                   = SumSeq([k \in 1..Len(results) |-> Cardinality(MatchedPositions(results[k]))])
             /\ summary.matched <= summary.attempted
             /\ summary.attempted = Len(inputs)

\* a bulk run whose first batch restores its input and whose second batch has
\* more restored values than inputs (the two scalars of an error body)
C18_Witness ==
    /\ entry = "cli"
    /\ config.bulk
    /\ pc = "done"
    /\ Len(results) = 2
    /\ Len(results[1].inputs) = 1
    /\ matches(results[1]) = <<TRUE>>
    /\ Len(results[2].inputs) = 1
    /\ Len(results[2].restored_values) = 2
    /\ matches(results[2]) = <<FALSE>>
    /\ summary.matched = 1
    /\ summary.attempted = 2

\* C19: the requests of a run form a strictly sequential trace: only the
\* last request can be outstanding; in the runs of cli.main and of
\* run_bulk_iteration, protect and reveal requests alternate starting with a
\* protect request, and the protect request of item or batch k+1 is issued
\* only after the reveal response of item or batch k arrived and its result
\* was recorded.
C19_SequentialTrace ==
    /\ \A j \in 1..Len(calls) : j < Len(calls) => calls[j].ret # Pending
    /\ entry \in {"cli", "runner"} =>
          /\ \A j \in 1..Len(calls) :
                calls[j].ep = IF j % 2 = 1
                              THEN (IF BulkMode THEN "protectbulk" ELSE "protect")
                              ELSE (IF BulkMode THEN "revealbulk" ELSE "reveal")
          /\ Len(calls) \in {2 * Len(results), 2 * Len(results) + 1, 2 * Len(results) + 2}
          /\ Len(calls) > 2 * Len(results)
                <=> (calls # <<>> /\ calls[Len(calls)].ret = Pending)

\* the protect request of batch 2 is outstanding; both requests of batch 1
\* have been answered
C19_Witness ==
    /\ BulkMode
    /\ Len(calls) = 3
    /\ calls[1].ret # Pending
    /\ calls[2].ret # Pending
    /\ calls[3].ep = "protectbulk"
    /\ calls[3].ret = Pending
    /\ Len(results) = 1

\* C20: the iterative loop of main makes at most `iterations` protect ->
\* reveal round trips and always comes to its end; when
\* increment_numeric_string raises ValueError the loop stops at once, no
\* protect or reveal request is sent after it, and main returns 0.
C20_LoopTerminates ==
    /\ [](/\ CountCalls("protect") <= config.iterations
          /\ CountCalls("reveal") <= config.iterations
          /\ Len(results) <= config.iterations)
    /\ []((inc_call.called /\ inc_call.out = ValueError) =>
             /\ loop_exit = "ValueError"
             /\ pc \in {"iter_summary", "done"}
             /\ Len(calls) = 2 * Len(results)
             /\ calls[Len(calls)].ret # Pending
             /\ calls[Len(calls)].payload = reveal_payload(results[Len(results)].protected_token))
    /\ [][loop_exit = "ValueError" => calls' = calls]_vars
    /\ [](pc = "done" => main_result = "return 0")
    /\ <>(pc = "done")

\* a run of two iterations from "a1": one round trip is made, the increment
\* fails, and main returns 0 after two requests
C20_Witness ==
    /\ IterMode
    /\ config.start_data = <<"a", "1">>
    /\ config.iterations = 2
    /\ loop_exit = "ValueError"
    /\ inc_call = [called |-> TRUE, s |-> <<"a", "1">>, out |-> ValueError]
    /\ Len(calls) = 2
    /\ pc = "done"
    /\ main_result = "return 0"

\* ---------------------------------------------------------------- C21..C24
\* every top-level string or integer value of a mapping, in iteration order
ScalarsOf(pairs, out) ==
    LET scalar == SelectSeq(pairs, LAMBDA kv : kv.v.t \in {"str", "int"})
    IN  /\ Len(out) = Len(scalar)
        /\ \A j \in 1..Len(scalar) : out[j] = py_str(scalar[j].v)

BatchOffsets == {k \in 0..(Len(inputs) - 1) : k % config.batch_size = 0}

\* C22: in a bulk run of main, of cli.py and of the script alike, every batch
\* is sent once to the bulk-protect endpoint and once to the bulk-reveal
\* endpoint: when main is over, the requests number twice the batches.
C22_EachBatchOnce ==
    (entry \in {"cli", "script"} /\ config.bulk /\ pc \in {"done", "raised"}) =>
        /\ \A k \in BatchOffsets :
              Cardinality({j \in 1..Len(calls) :
                              /\ calls[j].ep = "protectbulk"
                              /\ calls[j].payload
                                    = protect_bulk_payload(batch_of(inputs, k, config.batch_size))})
                 = 1
        /\ CountCalls("protectbulk") = Cardinality(BatchOffsets)
        /\ CountCalls("revealbulk") = Cardinality(BatchOffsets)
        /\ Len(calls) = 2 * Cardinality(BatchOffsets)

\* the values sent to the protect endpoint, in the order they were sent
ProtectData ==
    LET sent == SelectSeq(calls, LAMBDA c : c.ep = "protect")
    IN  [j \in 1..Len(sent) |-> sent[j].payload.data]

\* C23: in an iterative run of main, of cli.py and of the script alike, the
\* value sent to protect in a round trip is numerically one more than the
\* value of the previous round trip, so no value is sent to protect twice,
\* also after an iteration that raised an error; the result list only grows.
C23_InputAdvances ==
    /\ []((entry \in {"cli", "script"} /\ ~config.bulk) =>
             /\ \A j \in 1..(Len(ProtectData) - 1) :
                   /\ isdigit(ProtectData[j])
                   /\ isdigit(ProtectData[j + 1])
                   /\ int(ProtectData[j + 1]) = int(ProtectData[j]) + 1
             /\ \A j, k \in 1..Len(ProtectData) : j # k => ProtectData[j] # ProtectData[k])
    /\ [][(entry \in {"cli", "script"} /\ ~config.bulk) =>
             /\ Len(results') >= Len(results)
             /\ SubSeq(results', 1, Len(results)) = results]_vars

\* the items of the batches whose protect and reveal responses are both 2xx
ItemsOfSucceededBatches ==
    SumSeq([k \in 1..Len(results) |->
               IF /\ Is2xx(results[k].protect_response.status_code)
                  /\ Is2xx(results[k].reveal_response.status_code)
               THEN Len(results[k].inputs) ELSE 0])

\* C24: in the summary of a bulk run of cli.main the 'Successful (both 2xx)'
\* count never exceeds the 'Iterations attempted' count, and a batch whose
\* protect or reveal response is not a success adds nothing to it.
C24_SuccessfulWithinAttempted ==
    (entry = "cli" /\ config.bulk /\ pc = "done") =>
        /\ summary.successful <= summary.attempted
        /\ summary.successful <= ItemsOfSucceededBatches

====
